---- MODULE Spec2Model ----
(***************************************************************************)
(* The session layer of the MCP map server: BaseMcpServer (core/           *)
(* BaseMcpServer.ts, src/unnamed/part_005 lines 1-176).  One express app   *)
(* serves POST, GET and DELETE on /mcp; `transports` is the session table  *)
(* that maps a session id to its StreamableHTTPServerTransport.            *)
(*                                                                         *)
(* Every HTTP handler runs on node's single thread; it is interleaved     *)
(* with other handlers only where it awaits.  The POST handler awaits      *)
(* this.server.connect(transport) in its create branch; everything else   *)
(* that touches the session table runs without suspension, so the other    *)
(* handlers are one action each.                                           *)
(*                                                                         *)
(* The transport and the protocol server come from the MCP SDK.  Their     *)
(* part (handleRequest, close, connect) is modelled at the places where    *)
(* this code calls them, with the SDK's session rules: an initialize       *)
(* request is accepted once per transport and then invokes                 *)
(* onsessioninitialized; any other request is validated against the        *)
(* transport's own sessionId; DELETE closes the transport, which invokes   *)
(* onclose.                                                                *)
(***************************************************************************)
EXTENDS Integers, Sequences, FiniteSets, TLC

\* Number of transports the POST handler may construct in one run.
MaxTransports == 2

\* `undefined`: no mcp-session-id header / transport.sessionId not yet set.
NoSession == 0
\* A client-chosen header value that the server never generated ("not-real").
NotReal == -1
\* No transport (a handler that never called handleRequest).
NoTransport == 0

\* What a request asks of the transport.  POST: an initialize request
\* (isInitializeRequest(req.body)), any other JSON-RPC message, or a request
\* the transport refuses on its headers.  GET: a stream request or a refused one.
PostKinds == {"initialize", "call", "unacceptable"}
GetKinds == {"stream", "unacceptable"}

\* The requests of the tool-call scenarios: an initialize request or a
\* tools/call request, which starts the handler registerTools registered.
CallKinds == {"initialize", "tools/call"}

\* How the handler behind a tools/call request ends: a success result, or one
\* of the dispatcher's error kinds (unknown tool name, arguments that violate
\* the tool's schema, a failure inside the handler).
CallOutcomes == {"ok", "UnknownTool", "InvalidParams", "HandlerFailure"}

VARIABLES
    transports,      \* this.transports: session id -> transport (index into tr)
    httpServer,      \* this.httpServer: "null", "listening" or "closing"
    tr,              \* the transports constructed so far, in construction order
    uuids,           \* how many ids randomUUID() has returned
    pending,         \* POST handlers suspended at `await this.server.connect`
    issued,          \* every id that has ever been a key of this.transports
    resp,            \* what the last step did and answered
    serverTransport, \* this.server's transport: the one McpServer has a single one
    process,         \* the node process: "running" or "exited"
    toolCall,        \* the tools/call request the dispatcher is working on
    cli,             \* the command line start: environment, arguments, servers
    provider         \* the provider operation under way: its input and result

sessionVars == <<transports, httpServer, tr, uuids, pending, issued, resp,
                 serverTransport, process>>

vars == <<sessionVars, toolCall, cli, provider>>

----------------------------------------------------------------------------
\* The session table as a finite map.

Keys(tbl) == DOMAIN tbl

Put(tbl, k, v) == [x \in (DOMAIN tbl) \cup {k} |-> IF x = k THEN v ELSE tbl[x]]

Delete(tbl, k) == [x \in (DOMAIN tbl) \ {k} |-> tbl[x]]

EmptyTable == [x \in {} |-> NoTransport]

\* randomUUID(): the n-th call returns an id no earlier call returned.
randomUUID_repeats(n) == 1

randomUUID(n) == n + 1

\* new StreamableHTTPServerTransport({sessionIdGenerator: () => newSessionId, ...})
\* calling: the handler of a tools/call request of this transport is running;
\* via: the transport the protocol server will send that handler's result
\* through; open: the response stream of the request is open.
NewTransport(newSessionId) ==
    [gen |-> newSessionId, sessionId |-> NoSession, initialized |-> FALSE,
     closed |-> FALSE, sse |-> FALSE,
     calling |-> FALSE, via |-> NoTransport, open |-> FALSE]

\* What a step did and answered: the handler (op), the request's header and
\* kind, the response status (0: none yet), the mcp-session-id response header
\* set by this code (sid) and the transport whose handleRequest was invoked
\* (fwd).  For the result of a tool call: the transport that received the call
\* (fwd) and the transport whose client received the result (to).
Answer(op, hdr, kind, status, sid, fwd) ==
    [op |-> op, hdr |-> hdr, kind |-> kind, status |-> status, sid |-> sid,
     fwd |-> fwd, to |-> NoTransport]

NoAnswer(op) == Answer(op, NoSession, "-", 0, NoSession, NoTransport)

\* The header values a client can send: none, an invented one, or an id the
\* server has handed out in a response header.
Headers == {NoSession, NotReal} \cup issued

Running == process = "running"

Serving == Running /\ httpServer \in {"listening", "closing"}

----------------------------------------------------------------------------
SessionInit ==
    /\ transports = EmptyTable
    /\ httpServer = "null"
    /\ tr = << >>
    /\ uuids = 0
    /\ pending = {}
    /\ issued = {}
    /\ resp = NoAnswer("new")
    /\ serverTransport = NoTransport
    /\ process = "running"

\* No tools/call request at the dispatcher.
NoToolCall == "none"

\* The command line start and the providers are not part of the run.
NoStart == "none"

NoOperation == "none"

Init ==
    /\ SessionInit
    /\ toolCall = NoToolCall
    /\ cli = NoStart
    /\ provider = NoOperation

\* startHttpServer(port): registers the routes and listens.
startHttpServer ==
    /\ Running
    /\ httpServer = "null"
    /\ httpServer' = "listening"
    /\ resp' = NoAnswer("startHttpServer")
    /\ UNCHANGED <<toolCall, cli, provider, transports, tr, uuids, pending, issued, serverTransport, process>>

----------------------------------------------------------------------------
\* The callbacks this code installs on a transport.

\* onsessioninitialized: (sid) => { this.transports[sid] = transport; ... }
\* `sessionId` is the request's header value, which the closure can see.
onsessioninitialized_keeps_client_id(tbl, sid, transport, sessionId) ==
    Put(tbl, IF sessionId # NoSession THEN sessionId ELSE sid, transport)

onsessioninitialized(tbl, sid, transport, sessionId) == Put(tbl, sid, transport)

\* transport.onclose = () => { if (transport.sessionId) delete this.transports[...] }
onclose_keeps_entry(tbl, x) == tbl

onclose_clears_table(tbl, x) == [k \in {} |-> 0]

onclose(tbl, x) ==
    IF x.sessionId # NoSession THEN Delete(tbl, x.sessionId) ELSE tbl

\* if (sessionId && this.transports[sessionId])
ReuseBranch_never(tbl, sessionId) == FALSE

ReuseBranch(tbl, sessionId) == sessionId # NoSession /\ sessionId \in Keys(tbl)

\* transport = this.transports[sessionId]
lookup_first(tbl, sessionId) == 1

lookup(tbl, sessionId) == tbl[sessionId]

\* if (!sessionId || !this.transports[sessionId]) in handleSessionRequest
InvalidSession_always(tbl, sessionId) == TRUE

InvalidSession(tbl, sessionId) == sessionId = NoSession \/ sessionId \notin Keys(tbl)

\* res.status(400).send("Invalid or missing session ID"): no transport is called.
Rejected_as_not_found(method, hdr, kind) ==
    Answer(method, hdr, kind, 404, NoSession, NoTransport)

Rejected(method, hdr, kind) == Answer(method, hdr, kind, 400, NoSession, NoTransport)

\* The session table after the transport's construction: the constructor
\* only receives the callbacks, it registers nothing.
Constructed_registers(tbl, newSessionId, transport) == Put(tbl, newSessionId, transport)

Constructed(tbl, newSessionId, transport) == tbl

----------------------------------------------------------------------------
\* transport.handleRequest, as the SDK's transport x answers it.  A request
\* the transport refuses on its headers (Accept, Content-Type) is answered
\* 406 and changes nothing.

Outcome(x, tbl, status, sid) == [x |-> x, tbl |-> tbl, status |-> status, sid |-> sid]

\* validateSession: the transport is initialized and the header is its sessionId.
validateSession(x, hdr) ==
    IF ~x.initialized THEN 400
    ELSE IF hdr = NoSession THEN 400
    ELSE IF hdr # x.sessionId THEN 404
    ELSE 200

\* An accepted tools/call request: the transport keeps the response stream
\* open and hands the message to the protocol server, which starts the handler
\* registered by registerTools and remembers the transport it has at that
\* moment as the one to send the result through.
onrequest(x, st) == [x EXCEPT !.calling = TRUE, !.via = st, !.open = TRUE]

\* this.server.connect(transport): the server's transport is now this one.
connect(st, t) == t

\* The server's part of a transport's onclose (connect chained it on every
\* transport): the server has no transport any more, whichever one closed.
connectedOnclose(st, x, y) == IF ~x.closed /\ y.closed THEN NoTransport ELSE st

\* POST: an initialize request is accepted once; it sets sessionId from
\* sessionIdGenerator and invokes onsessioninitialized, which also sets the
\* response header.  Any other message must belong to the transport's session.
handlePost(tbl, t, x, hdr, kind) ==
    IF kind = "unacceptable" THEN Outcome(x, tbl, 406, NoSession)
    ELSE IF kind = "initialize"
    THEN IF x.initialized /\ x.sessionId # NoSession
         THEN Outcome(x, tbl, 400, NoSession)
         ELSE Outcome([x EXCEPT !.sessionId = x.gen, !.initialized = TRUE],
                      onsessioninitialized(tbl, x.gen, t, hdr), 200, x.gen)
    ELSE IF validateSession(x, hdr) # 200
    THEN Outcome(x, tbl, validateSession(x, hdr), NoSession)
    ELSE IF kind = "tools/call"
    THEN Outcome(onrequest(x, serverTransport), tbl, 200, NoSession)
    ELSE Outcome(x, tbl, 200, NoSession)

\* transport.close(): ends the streams and invokes onclose.
closeTransport(tbl, x) ==
    Outcome([x EXCEPT !.closed = TRUE, !.sse = FALSE, !.open = FALSE],
            onclose(tbl, x), 200, NoSession)

\* GET opens the session's one push stream.
handleGet(tbl, x, hdr, kind) ==
    IF kind = "unacceptable" THEN Outcome(x, tbl, 406, NoSession)
    ELSE IF validateSession(x, hdr) # 200
    THEN Outcome(x, tbl, validateSession(x, hdr), NoSession)
    ELSE IF x.sse THEN Outcome(x, tbl, 409, NoSession)
    ELSE Outcome([x EXCEPT !.sse = TRUE], tbl, 200, NoSession)

\* DELETE closes the transport.
handleDelete(tbl, x, hdr) ==
    IF validateSession(x, hdr) # 200
    THEN Outcome(x, tbl, validateSession(x, hdr), NoSession)
    ELSE closeTransport(tbl, x)

----------------------------------------------------------------------------
\* app.post("/mcp"), from the request's arrival to its first suspension.
\* Reuse branch: look up and forward, in one step.  Create branch: draw the
\* id, construct the transport, install onclose, call this.server.connect
\* and suspend at the await.
Post(hdr, kind) ==
    /\ Serving
    /\ IF ReuseBranch(transports, hdr)
       THEN LET t == lookup(transports, hdr)
                r == handlePost(transports, t, tr[t], hdr, kind)
            IN  /\ kind = "tools/call" => ~tr[t].calling /\ ~tr[t].open
                /\ tr' = [tr EXCEPT ![t] = r.x]
                /\ transports' = r.tbl
                /\ issued' = issued \cup Keys(r.tbl)
                /\ resp' = Answer("post", hdr, kind, r.status, r.sid, t)
                /\ UNCHANGED <<uuids, pending, serverTransport>>
       ELSE LET newSessionId == randomUUID(uuids)
                t == Len(tr) + 1
            IN  /\ Len(tr) < MaxTransports
                /\ uuids' = uuids + 1
                /\ tr' = Append(tr, NewTransport(newSessionId))
                /\ pending' = pending \cup
                       {[t |-> t, hdr |-> hdr, kind |-> kind]}
                /\ transports' = Constructed(transports, newSessionId, t)
                /\ issued' = issued \cup Keys(transports')
                /\ serverTransport' = connect(serverTransport, t)
                /\ resp' = Answer("post", hdr, kind, 0, NoSession, NoTransport)
    /\ UNCHANGED <<toolCall, cli, provider, httpServer, process>>

\* The create branch resumes after connect resolved: transport.handleRequest.
PostConnected(p) ==
    /\ Running
    /\ p \in pending
    /\ LET r == handlePost(transports, p.t, tr[p.t], p.hdr, p.kind)
       IN  /\ tr' = [tr EXCEPT ![p.t] = r.x]
           /\ transports' = r.tbl
           /\ issued' = issued \cup Keys(r.tbl)
           /\ resp' = Answer("postConnected", p.hdr, p.kind, r.status, r.sid, p.t)
    /\ pending' = pending \ {p}
    /\ UNCHANGED <<toolCall, cli, provider, httpServer, uuids, serverTransport, process>>

\* An await of the POST handler rejected.  The handler is an async function
\* without a try/catch, so the promise it returned to express rejects: an
\* express that watches the promise answers 500; one that does not leaves the
\* rejection unhandled, and node ends the process.
Unhandled(fatal) == IF fatal THEN 0 ELSE 500

Rejection(fatal) == IF fatal THEN "exited" ELSE "running"

\* connect rejected: the handler ends at the await, handleRequest is never called.
PostConnectRejected(p, fatal) ==
    /\ Running
    /\ p \in pending
    /\ pending' = pending \ {p}
    /\ resp' = Answer("postRejected", p.hdr, p.kind, Unhandled(fatal), NoSession,
                      NoTransport)
    /\ process' = Rejection(fatal)
    /\ UNCHANGED <<toolCall, cli, provider, transports, httpServer, tr, uuids, issued, serverTransport>>

\* transport.handleRequest threw in the reuse branch: the handler ends there.
PostThrows(hdr, fatal) ==
    /\ Serving
    /\ ReuseBranch(transports, hdr)
    /\ resp' = Answer("postThrows", hdr, "-", Unhandled(fatal), NoSession,
                      transports[hdr])
    /\ process' = Rejection(fatal)
    /\ UNCHANGED <<toolCall, cli, provider, transports, httpServer, tr, uuids, pending, issued,
                   serverTransport>>

\* handleSessionRequest, for app.get and app.delete.
handleSessionRequest(method, hdr, kind) ==
    /\ Serving
    /\ IF InvalidSession(transports, hdr)
       THEN /\ resp' = Rejected(method, hdr, kind)
            /\ UNCHANGED <<transports, tr, issued, serverTransport>>
       ELSE LET t == lookup(transports, hdr)
                r == IF method = "get" THEN handleGet(transports, tr[t], hdr, kind)
                     ELSE handleDelete(transports, tr[t], hdr)
            IN  /\ tr' = [tr EXCEPT ![t] = r.x]
                /\ transports' = r.tbl
                /\ issued' = issued \cup Keys(r.tbl)
                /\ serverTransport' = connectedOnclose(serverTransport, tr[t], r.x)
                /\ resp' = Answer(method, hdr, kind, r.status, NoSession, t)
    /\ UNCHANGED <<toolCall, cli, provider, httpServer, uuids, pending, process>>

\* A transport closes for a reason of its own (the protocol server or the
\* transport layer closes it): the same close path as DELETE.
transportCloses(t) ==
    /\ Running
    /\ t \in 1..Len(tr) /\ ~tr[t].closed
    /\ LET r == closeTransport(transports, tr[t])
       IN  /\ tr' = [tr EXCEPT ![t] = r.x]
           /\ transports' = r.tbl
           /\ serverTransport' = connectedOnclose(serverTransport, tr[t], r.x)
    /\ resp' = NoAnswer("closes")
    /\ UNCHANGED <<toolCall, cli, provider, httpServer, uuids, pending, issued, process>>

\* The transport whose handler finished.  registerTools hands the handler's
\* outcome to the protocol server as the call's result, whatever the outcome:
\* nothing is done to the session.
settled_closes_on_error(x, outcome) ==
    IF outcome = "ok" THEN [x EXCEPT !.calling = FALSE, !.via = NoTransport]
    ELSE [x EXCEPT !.calling = FALSE, !.via = NoTransport, !.closed = TRUE,
                   !.open = FALSE]

settled(x, outcome) == [x EXCEPT !.calling = FALSE, !.via = NoTransport]

\* The handler of transport t's tools/call request finishes with `outcome`.
\* The protocol server sends the response through the transport it remembered
\* for the request.  That transport writes it to the stream it holds for the
\* request's id and ends the stream; without such a stream (none was opened,
\* or the transport has closed) send throws and the response is dropped.
\* Clients number their requests alike, so the id of t's request is also the
\* id of the request another transport holds a stream for.
CallFinishes(t, outcome) ==
    /\ Running
    /\ t \in 1..Len(tr) /\ tr[t].calling
    /\ LET v == tr[t].via
           delivered == v # NoTransport /\ tr[v].open
           done == [tr EXCEPT ![t] = settled(tr[t], outcome)]
       IN  /\ tr' = IF delivered THEN [done EXCEPT ![v].open = FALSE] ELSE done
           /\ resp' = [Answer("result", tr[t].sessionId, outcome, 0, NoSession, t)
                           EXCEPT !.to = IF delivered THEN v ELSE NoTransport]
    /\ UNCHANGED <<toolCall, cli, provider, transports, httpServer, uuids, pending, issued,
                   serverTransport, process>>

\* stopHttpServer() with no server running: logs and returns.
stopNotRunning ==
    /\ Running
    /\ httpServer = "null"
    /\ resp' = NoAnswer("stopNotRunning")
    /\ UNCHANGED <<toolCall, cli, provider, transports, httpServer, tr, uuids, pending, issued,
                   serverTransport, process>>

\* stopHttpServer(): this.httpServer.close(callback) stops listening.
stopHttpServer ==
    /\ Running
    /\ httpServer = "listening"
    /\ httpServer' = "closing"
    /\ resp' = NoAnswer("stopHttpServer")
    /\ UNCHANGED <<toolCall, cli, provider, transports, tr, uuids, pending, issued, serverTransport, process>>

\* stopHttpServer() while an earlier stop is still closing the server:
\* this.httpServer is set, close() reports that the server is not running,
\* and the promise rejects; nothing is cleaned up.
stopRejected ==
    /\ Running
    /\ httpServer = "closing"
    /\ resp' = NoAnswer("stopRejected")
    /\ UNCHANGED <<toolCall, cli, provider, transports, httpServer, tr, uuids, pending, issued,
                   serverTransport, process>>

\* The entries the close callback deletes: those whose transport has a sessionId.
AfterStop(tbl) ==
    LET gone == {tr[tbl[k]].sessionId : k \in Keys(tbl)} \ {NoSession}
    IN  [k \in Keys(tbl) \ gone |-> tbl[k]]

\* The close callback runs once every connection has ended.
serverClosed ==
    /\ Running
    /\ httpServer = "closing"
    /\ pending = {}
    /\ \A t \in 1..Len(tr) : ~tr[t].sse /\ ~tr[t].open
    /\ httpServer' = "null"
    /\ transports' = AfterStop(transports)
    /\ resp' = NoAnswer("serverClosed")
    /\ UNCHANGED <<toolCall, cli, provider, tr, uuids, pending, issued, serverTransport, process>>

Next ==
    \/ startHttpServer
    \/ \E hdr \in Headers, kind \in PostKinds : Post(hdr, kind)
    \/ \E p \in pending : PostConnected(p)
    \/ \E p \in pending, fatal \in BOOLEAN : PostConnectRejected(p, fatal)
    \/ \E hdr \in Headers, fatal \in BOOLEAN : PostThrows(hdr, fatal)
    \/ \E hdr \in Headers, kind \in GetKinds : handleSessionRequest("get", hdr, kind)
    \/ \E hdr \in Headers : handleSessionRequest("delete", hdr, "-")
    \/ \E t \in 1..Len(tr) : transportCloses(t)
    \/ stopNotRunning
    \/ stopHttpServer
    \/ stopRejected
    \/ serverClosed

Spec == Init /\ [][Next]_vars

\* What node and the SDK do of their own accord: a suspended handler resumes
\* when connect settles, and the close callback runs once the server has no
\* connection left.  Clients are under no obligation.
FairSpec ==
    /\ Spec
    /\ WF_vars(\E p \in pending : PostConnected(p))
    /\ WF_vars(serverClosed)

\* Tool calls in flight: sessions are created, called and closed while
\* handlers run.  The server keeps listening.
NextCalls ==
    \/ startHttpServer
    \/ \E hdr \in Headers, kind \in CallKinds : Post(hdr, kind)
    \/ \E p \in pending : PostConnected(p)
    \/ \E hdr \in Headers : handleSessionRequest("get", hdr, "stream")
    \/ \E hdr \in Headers : handleSessionRequest("delete", hdr, "-")
    \/ \E t \in 1..Len(tr), outcome \in CallOutcomes : CallFinishes(t, outcome)

SpecCalls == Init /\ [][NextCalls]_vars

----------------------------------------------------------------------------
\* Vocabulary of the properties.

Transports == 1..Len(tr)

\* t is the value of some entry of the table.
Registered(tbl, t) == \E k \in Keys(tbl) : tbl[k] = t

\* The step constructed a transport (the create branch of app.post ran).
Created == Len(tr') = Len(tr) + 1

\* The step closed transport t: it closed for its own reasons, or a DELETE
\* was forwarded to it and accepted.
Closes(t) ==
    \/ resp'.op = "closes" /\ ~tr[t].closed /\ tr'[t].closed
    \/ resp'.op = "delete" /\ resp'.fwd = t /\ resp'.status = 200

\* The endpoint itself answered 400 without calling any transport.
EndpointRejects == resp'.status = 400 /\ resp'.fwd = NoTransport

\* The ids randomUUID has returned to the create branch.
Generated == {tr[t].gen : t \in Transports}

\* C1: a POST without session header whose body is a valid initialize request
\* is answered with an mcp-session-id header that was never a key of the
\* session table, the id is then a key of the table (bound to the transport
\* that handled the POST), the entry stays until its transport closes or the
\* server is stopped, and a GET or DELETE carrying an id of the table is
\* forwarded to that entry's transport instead of being rejected.
C1_InitializeCreatesSession ==
    [][ /\ (resp'.op = "postConnected" /\ resp'.hdr = NoSession /\ resp'.kind = "initialize")
            => /\ resp'.status = 200
               /\ resp'.sid # NoSession
               /\ resp'.sid \notin issued
               /\ resp'.sid \in Keys(transports')
               /\ transports'[resp'.sid] = resp'.fwd
        /\ \A k \in Keys(transports) :
               \/ k \in Keys(transports') /\ transports'[k] = transports[k]
               \/ Closes(transports[k])
               \/ resp'.op = "serverClosed"
        /\ (resp'.op \in {"get", "delete"} /\ resp'.hdr \in Keys(transports))
            => /\ resp'.fwd = transports[resp'.hdr]
               /\ ~EndpointRejects
      ]_vars

\* C1 witness: a second session has just been created by a header-less
\* initialize and an earlier one is still open.
C1_Witness ==
    /\ resp.op = "postConnected" /\ resp.hdr = NoSession /\ resp.kind = "initialize"
    /\ resp.sid \in Keys(transports)
    /\ Cardinality(Keys(transports)) = 2

C3_CloseRemovesEntry ==
    [][ \A t \in Transports : \A k \in Keys(transports) :
            (transports[k] = t /\ Closes(t)) => k \notin Keys(transports')
      ]_vars

\* C3 witness: a registered transport closed on its own (no DELETE) and its
\* id is no longer a key.
C3_Witness ==
    /\ resp.op = "closes"
    /\ \E t \in Transports :
           tr[t].closed /\ tr[t].sessionId \in issued \ Keys(transports)
\* C4: a transport enters the session table only at the step in which the
\* protocol layer accepts its initialize request (onsessioninitialized), which
\* happens at most once per transport: initialization is never undone, every
\* new or rebound entry is made by the POST step that initializes its
\* transport, and every transport in the table is initialized.  A transport
\* whose POST was refused, was no initialize, or ended at a rejected connect
\* is never a value of the table.
C4_RegisteredOnlyWhenInitialized ==
    [][ /\ \A t \in Transports : tr[t].initialized => tr'[t].initialized
        /\ \A k \in Keys(transports') :
               /\ transports'[k] \in 1..Len(tr')
               /\ tr'[transports'[k]].initialized
               /\ (k \notin Keys(transports) \/ transports[k] # transports'[k])
                   => /\ resp'.op = "postConnected"
                      /\ resp'.fwd = transports'[k]
                      /\ resp'.sid = k
                      /\ ~tr[transports'[k]].initialized
      ]_vars

\* C4 witness: a POST that was no initialize request went through the create
\* branch and was refused by its transport, which is constructed, not
\* initialized and not in the table, while another session is registered.
C4_Witness ==
    /\ resp.op = "postConnected" /\ resp.kind = "call" /\ resp.status = 400
    /\ ~tr[resp.fwd].initialized
    /\ ~Registered(transports, resp.fwd)
    /\ Keys(transports) # {}

\* C5: a POST whose header names a key of the session table is forwarded to
\* the transport stored under that key; no id is drawn, no transport is
\* constructed or connected, and the table is left as it was.
C5_KnownSessionReused ==
    [][ (resp'.op = "post" /\ resp'.hdr \in Keys(transports))
            => /\ resp'.fwd = transports[resp'.hdr]
               /\ uuids' = uuids
               /\ ~Created
               /\ pending' = pending
               /\ transports' = transports
      ]_vars

\* C5 witness: a call on an existing session was forwarded and accepted while
\* a second session exists.
C5_Witness ==
    /\ resp.op = "post" /\ resp.kind = "call" /\ resp.status = 200
    /\ resp.hdr \in Keys(transports) /\ resp.fwd = transports[resp.hdr]
    /\ Cardinality(Keys(transports)) = 2

\* The ids that were keys of the table and have been removed from it.
Removed == issued \ Keys(transports)

\* C6: an id that has been removed from the session table is never a key
\* again; a POST bearing it takes the create branch, which draws a different
\* id that was never a key, and a GET or DELETE bearing it is rejected.
C6_ClosedIsTerminal ==
    [][ \A k \in Removed :
            /\ k \notin Keys(transports')
            /\ (resp'.op = "post" /\ resp'.hdr = k)
                => /\ Created
                   /\ resp'.fwd = NoTransport
                   /\ tr'[Len(tr')].gen # k
                   /\ tr'[Len(tr')].gen \notin issued
            /\ (resp'.op \in {"get", "delete"} /\ resp'.hdr = k) => EndpointRejects
      ]_vars

\* C6 witness: an initialize POST bearing the id of a closed session has been
\* served under a new id.
C6_Witness ==
    /\ resp.op = "postConnected" /\ resp.kind = "initialize"
    /\ resp.hdr \in Removed
    /\ resp.sid \in Keys(transports) /\ resp.sid # resp.hdr
\* C7: a DELETE carrying a key of the session table is forwarded to that
\* entry's transport, is answered 200 and leaves the id out of the table; a
\* DELETE carrying an id that is no key (as the second of two DELETEs with the
\* same id does) is answered 400 by the endpoint, invokes no transport and
\* changes nothing: the handler completes normally.
C7_DeleteTwice ==
    [][ resp'.op = "delete" =>
            IF resp'.hdr \in Keys(transports)
            THEN /\ resp'.fwd = transports[resp'.hdr]
                 /\ resp'.status = 200
                 /\ tr'[resp'.fwd].closed
                 /\ resp'.hdr \notin Keys(transports')
            ELSE /\ EndpointRejects
                 /\ UNCHANGED <<transports, httpServer, tr, uuids, pending, issued>>
      ]_vars

\* C7 witness: the second DELETE of a session's id has been answered 400
\* right after the first one closed the session.
C7_Witness ==
    /\ resp.op = "delete" /\ resp.status = 400 /\ resp.fwd = NoTransport
    /\ \E t \in Transports :
           tr[t].closed /\ tr[t].sessionId = resp.hdr /\ resp.hdr \in Removed

\* C8: initializing POSTs without session header, however their create
\* branches interleave at the awaited connect, get different ids; each
\* response header carries the id of its own transport; each id is bound to
\* its own transport and the insert leaves every other entry as it was.
C8_ConcurrentInitializeDistinct ==
    [][ /\ \A t1, t2 \in 1..Len(tr') : t1 # t2 => tr'[t1].gen # tr'[t2].gen
        /\ (resp'.op = "postConnected" /\ resp'.kind = "initialize" /\ resp'.hdr = NoSession)
            => /\ resp'.sid = tr'[resp'.fwd].gen
               /\ resp'.sid = tr'[resp'.fwd].sessionId
               /\ resp'.sid \in Keys(transports')
               /\ transports'[resp'.sid] = resp'.fwd
               /\ \A k \in Keys(transports) :
                      k \in Keys(transports') /\ transports'[k] = transports[k]
      ]_vars

\* C8 witness: two header-less initializing POSTs were suspended at connect
\* together; the later one has completed first and is registered while the
\* earlier one is still suspended.
C8_Witness ==
    /\ resp.op = "postConnected" /\ resp.kind = "initialize" /\ resp.hdr = NoSession
    /\ resp.sid \in Keys(transports)
    /\ \E p \in pending :
           p.kind = "initialize" /\ p.hdr = NoSession /\ p.t < resp.fwd

\* C9: every key of the session table is bound to a constructed transport
\* whose own sessionId is that key, and no transport is stored under two keys.
C9_TableConsistent ==
    /\ \A k \in Keys(transports) :
           transports[k] \in Transports /\ tr[transports[k]].sessionId = k
    /\ \A k1, k2 \in Keys(transports) : transports[k1] = transports[k2] => k1 = k2

\* C9 witness: two sessions are registered at once.
C9_Witness ==
    /\ Cardinality(Keys(transports)) = 2
    /\ \A k \in Keys(transports) : tr[transports[k]].sessionId = k

----------------------------------------------------------------------------
(***************************************************************************)
(* Tool calls: the schema and handler of search_nearby (tools/maps/        *)
(* searchNearby.ts), and the handlers of get_place_details and             *)
(* maps_elevation, as registerTools registers them: the protocol server    *)
(* parses the arguments with the tool's schema and calls the handler with  *)
(* the parsed value.  The provider (PlacesSearcher) answers with           *)
(* {success, data, error} or throws.                                       *)
(***************************************************************************)

\* JSON values of the arguments: t is the JSON type ("absent": the key is
\* not there), n, b and s hold a number, a boolean or a string.
Absent == [t |-> "absent", n |-> 0, b |-> FALSE, s |-> ""]

Num(n) == [t |-> "number", n |-> n, b |-> FALSE, s |-> ""]

Bool(b) == [t |-> "boolean", n |-> 0, b |-> b, s |-> ""]

Str(s) == [t |-> "string", n |-> 0, b |-> FALSE, s |-> s]

Obj == [t |-> "object", n |-> 0, b |-> FALSE, s |-> ""]

\* z.number().default(1000)
DefaultRadius == 1000
\* z.number().min(0).max(5)
MinRatingMin == 0
MinRatingMax == 5

\* The arguments a client may send for search_nearby: every key absent, of
\* the declared type, or of another type; minRating inside, on and outside
\* the declared range.  value and isCoordinates are the keys of center.
NoArgs ==
    [center |-> Absent, value |-> Absent, isCoordinates |-> Absent,
     keyword |-> Absent, radius |-> Absent, openNow |-> Absent,
     minRating |-> Absent, placeId |-> Absent, locations |-> Absent]

Centers ==
    {[center |-> Absent, value |-> Absent, isCoordinates |-> Absent],
     [center |-> Str("Cape Town"), value |-> Absent, isCoordinates |-> Absent]}
    \cup
    {[center |-> Obj, value |-> v, isCoordinates |-> c] :
        v \in {Absent, Str("Cape Town"), Num(7)},
        c \in {Absent, Bool(TRUE), Bool(FALSE), Str("yes")}}

SearchNearbyArgs ==
    {[NoArgs EXCEPT !.center = c.center, !.value = c.value,
                    !.isCoordinates = c.isCoordinates, !.keyword = k,
                    !.radius = r, !.openNow = o, !.minRating = m] :
        c \in Centers,
        k \in {Absent, Str("cafe"), Num(7)},
        r \in {Absent, Num(500), Str("far")},
        o \in {Absent, Bool(TRUE), Bool(FALSE), Str("yes")},
        m \in {Absent, Num(MinRatingMin - 1), Num(MinRatingMin), Num(3),
               Num(MinRatingMax), Num(MinRatingMax + 1), Str("good")}}

PlaceDetailsArgs ==
    {[NoArgs EXCEPT !.placeId = p] : p \in {Absent, Str("ChIJ"), Num(7)}}

\* locations: a list of {latitude, longitude} objects, or something else.
ElevationArgs ==
    {[NoArgs EXCEPT !.locations = l] : l \in {Absent, Obj, Str("here")}}

\* .default(d): an absent key parses to d.
default(v, d) == IF v.t = "absent" THEN d ELSE v

\* searchNearbySchema: which arguments parse.
searchNearbySchema_any_rating(a) ==
    /\ a.center.t = "object"
    /\ a.value.t = "string"
    /\ a.isCoordinates.t \in {"absent", "boolean"}
    /\ a.keyword.t \in {"absent", "string"}
    /\ a.radius.t \in {"absent", "number"}
    /\ a.openNow.t \in {"absent", "boolean"}
    /\ a.minRating.t \in {"absent", "number"}

searchNearbySchema(a) ==
    /\ a.center.t = "object"
    /\ a.value.t = "string"
    /\ a.isCoordinates.t \in {"absent", "boolean"}
    /\ a.keyword.t \in {"absent", "string"}
    /\ a.radius.t \in {"absent", "number"}
    /\ a.openNow.t \in {"absent", "boolean"}
    /\ \/ a.minRating.t = "absent"
       \/ /\ a.minRating.t = "number"
          /\ a.minRating.n >= MinRatingMin
          /\ a.minRating.n <= MinRatingMax

\* The value the schema parses valid arguments to (SearchNearbyParams).
SearchNearbyParams_no_defaults(a) == a

SearchNearbyParams(a) ==
    [a EXCEPT !.isCoordinates = default(@, Bool(FALSE)),
              !.radius = default(@, Num(DefaultRadius)),
              !.openNow = default(@, Bool(FALSE))]

\* The registered tools with their schemas, and a name no tool has.
ToolNames == {"search_nearby", "get_place_details", "maps_elevation"}

Requested == ToolNames \cup {"no_such_tool"}

ArgsOf(tool) ==
    IF tool = "search_nearby" THEN SearchNearbyArgs
    ELSE IF tool = "get_place_details" THEN PlaceDetailsArgs
    ELSE IF tool = "maps_elevation" THEN ElevationArgs
    ELSE {NoArgs}

schema(tool, a) ==
    IF tool = "search_nearby" THEN searchNearbySchema(a)
    ELSE IF tool = "get_place_details" THEN a.placeId.t = "string"
    ELSE a.locations.t = "object"

parsed(tool, a) == IF tool = "search_nearby" THEN SearchNearbyParams(a) ELSE a

\* What the provider does with a call: constructing it throws (only when the
\* module has not constructed one yet), the call throws an Error or some
\* other value, it reports success: false with or without a message, or it
\* reports success: true with data.
ProviderOutcomes ==
    {[kind |-> k, isErrorObject |-> i, error |-> e, data |-> "-"] :
        k \in {"constructThrows", "throws"}, i \in BOOLEAN,
        e \in {"", "REQUEST_DENIED"}}
    \cup {[kind |-> "failure", isErrorObject |-> FALSE, error |-> e, data |-> "-"] :
        e \in {"", "REQUEST_DENIED"}}
    \cup {[kind |-> "success", isErrorObject |-> FALSE, error |-> "", data |-> d] :
        d \in {"[]", "[place]"}}

\* JSON.stringify(v, null, 2): the text of v.
JSONstringify(v) == <<"json", v>>

\* a || b on strings: b when a is undefined or empty.
OrElse(a, b) == IF a = "" THEN b ELSE a

\* A result of ACTION: {content: [{type: "text", text}], isError}; text is
\* the list of the parts the code concatenates.  thrown: ACTION threw instead.
ToolResult(isError, text) ==
    [thrown |-> FALSE, isError |-> isError, content |-> <<[type |-> "text", text |-> text]>>]

Thrown == [thrown |-> TRUE, isError |-> "unset", content |-> << >>]

NoResult == [thrown |-> FALSE, isError |-> "unset", content |-> << >>]

\* catch (error): error instanceof Error ? error.message : JSON.stringify(error)
errorMessage(o) == IF o.isErrorObject THEN <<o.error>> ELSE JSONstringify(o.error)

\* ACTION of search_nearby: the try block constructs the provider, awaits the
\* call and returns; the catch block returns an error result.
ACTION_search_nearby_constructs_outside_try(o) ==
    IF o.kind = "constructThrows" THEN Thrown
    ELSE IF o.kind = "throws"
    THEN ToolResult("true", <<"Error searching nearby places: ">> \o errorMessage(o))
    ELSE IF o.kind = "failure"
    THEN ToolResult("true", <<OrElse(o.error, "Search failed")>>)
    ELSE ToolResult("false", <<"location: ">> \o JSONstringify("location") \o <<"\n">>
                             \o JSONstringify(o.data))

ACTION_search_nearby_failure_not_flagged(o) ==
    IF o.kind \in {"constructThrows", "throws"}
    THEN ToolResult("true", <<"Error searching nearby places: ">> \o errorMessage(o))
    ELSE IF o.kind = "failure"
    THEN ToolResult("unset", <<OrElse(o.error, "Search failed")>>)
    ELSE ToolResult("false", <<"location: ">> \o JSONstringify("location") \o <<"\n">>
                             \o JSONstringify(o.data))

ACTION_search_nearby(o) ==
    IF o.kind \in {"constructThrows", "throws"}
    THEN ToolResult("true", <<"Error searching nearby places: ">> \o errorMessage(o))
    ELSE IF o.kind = "failure"
    THEN ToolResult("true", <<OrElse(o.error, "Search failed")>>)
    ELSE ToolResult("false", <<"location: ">> \o JSONstringify("location") \o <<"\n">>
                             \o JSONstringify(o.data))

\* ACTION of get_place_details.
ACTION_get_place_details(o) ==
    IF o.kind \in {"constructThrows", "throws"}
    THEN ToolResult("true", <<"Error getting place details: ">> \o errorMessage(o))
    ELSE IF o.kind = "failure"
    THEN ToolResult("true", <<OrElse(o.error, "Failed to get place details")>>)
    ELSE ToolResult("false", JSONstringify(o.data))

\* ACTION of maps_elevation.
ACTION_maps_elevation(o) ==
    IF o.kind \in {"constructThrows", "throws"}
    THEN ToolResult("true", <<"Error getting elevation data: ">> \o errorMessage(o))
    ELSE IF o.kind = "failure"
    THEN ToolResult("true", <<OrElse(o.error, "Failed to get elevation data")>>)
    ELSE ToolResult("false", JSONstringify(o.data))

\* tool.action(params)
action(tool, o) ==
    IF tool = "search_nearby" THEN ACTION_search_nearby(o)
    ELSE IF tool = "get_place_details" THEN ACTION_get_place_details(o)
    ELSE ACTION_maps_elevation(o)

\* The provider has not been called.
NotCalled == [kind |-> "-", isErrorObject |-> FALSE, error |-> "", data |-> "-"]

\* A tools/call request as the protocol server received it: the tool's name
\* and arguments, whether the tool's module holds a provider already
\* (placesSearcher), how often the handler was invoked, how the call ended
\* (outcome), what the provider did and the call's result.
Received(tool, a, cached) ==
    [phase |-> "received", tool |-> tool, args |-> a, params |-> NoArgs,
     placesSearcher |-> cached, invoked |-> 0, outcome |-> "-",
     provider |-> NotCalled, result |-> NoResult]

ToolInit ==
    /\ SessionInit
    /\ toolCall \in {Received(tool, a, cached) :
                        tool \in Requested, a \in UNION {ArgsOf(t) : t \in Requested},
                        cached \in BOOLEAN}
    /\ toolCall.args \in ArgsOf(toolCall.tool)
    /\ cli = NoStart
    /\ provider = NoOperation

\* The protocol server's tools/call handler up to the call of the registered
\* handler: an unknown name and arguments the schema rejects end the call
\* with an error result and the handler is not called.
Dispatch ==
    /\ toolCall.phase = "received"
    /\ toolCall' =
           IF toolCall.tool \notin ToolNames
           THEN [toolCall EXCEPT !.phase = "done", !.outcome = "UnknownTool",
                    !.result = ToolResult("true", <<"Tool not found: ", toolCall.tool>>)]
           ELSE IF ~schema(toolCall.tool, toolCall.args)
           THEN [toolCall EXCEPT !.phase = "done", !.outcome = "InvalidParams",
                    !.result = ToolResult("true", <<"Invalid arguments for tool ",
                                                    toolCall.tool>>)]
           ELSE [toolCall EXCEPT !.phase = "running",
                                 !.params = parsed(toolCall.tool, toolCall.args),
                                 !.invoked = toolCall.invoked + 1]
    /\ UNCHANGED <<sessionVars, cli, provider>>

\* The handler runs to its end against a provider that behaves as o.
HandlerReturns(o) ==
    /\ toolCall.phase = "running"
    /\ o.kind = "constructThrows" => ~toolCall.placesSearcher
    /\ LET r == action(toolCall.tool, o)
       IN  toolCall' =
               [toolCall EXCEPT !.phase = "done",
                                !.provider = o,
                                !.placesSearcher = (o.kind # "constructThrows"),
                                !.result = r,
                                !.outcome = IF r.thrown \/ r.isError # "false"
                                            THEN "HandlerFailure" ELSE "ok"]
    /\ UNCHANGED <<sessionVars, cli, provider>>

ToolNext ==
    \/ Dispatch
    \/ \E o \in ProviderOutcomes : HandlerReturns(o)

ToolSpec == ToolInit /\ [][ToolNext]_vars

----------------------------------------------------------------------------
\* Sessions beside one another, faults, shutdown.

\* The dispatcher's error kinds.
CallErrors == CallOutcomes \ {"ok"}

\* C11: closing one session does not end the process and leaves every other
\* session as it was: the other entries of the table are unchanged, a later
\* POST, GET or DELETE carrying a registered id is forwarded to its transport,
\* and the result of a tool call is still delivered to the session that made
\* the call (stated for the session whose transport was connected last, which
\* is open and still holds the call's response stream).
C11_OtherSessionsUnaffected ==
    [][ /\ \A t \in Transports : Closes(t) =>
               /\ process' = "running"
               /\ \A k \in Keys(transports) : transports[k] # t =>
                      k \in Keys(transports') /\ transports'[k] = transports[k]
        /\ (resp'.op \in {"post", "get", "delete"} /\ resp'.hdr \in Keys(transports))
            => resp'.fwd = transports[resp'.hdr]
        /\ (/\ resp'.op = "result"
            /\ resp'.fwd = Len(tr)
            /\ ~tr[resp'.fwd].closed
            /\ tr[resp'.fwd].open)
            => resp'.to = resp'.fwd
      ]_vars

\* C12: when transport.handleRequest throws in a POST for a registered
\* session, the caller is answered with a failure (500), the process keeps
\* running and the session table is as it was.
C12_HandleRequestThrows ==
    [][ resp'.op = "postThrows" =>
            /\ resp'.status = 500
            /\ process' = "running"
            /\ transports' = transports
      ]_vars

\* C13: a session can be closed while the handler of its tool call is
\* running: the close removes the entry at once, and when the handler
\* finishes its result is dropped: the process keeps running, the session
\* table is unchanged, and no session's client receives the result.
C13_ClosedSessionResultDiscarded ==
    [][ /\ \A t \in Transports : (Closes(t) /\ tr[t].calling) =>
               ~Registered(transports', t)
        /\ (resp'.op = "result" /\ tr[resp'.fwd].closed) =>
               /\ resp'.to = NoTransport
               /\ transports' = transports
               /\ process' = "running"
      ]_vars

\* C14: when a stopHttpServer call on a server that was started has finished,
\* resolved or rejected, the session table is empty and every transport that
\* was registered is closed.
C14_StopDestroysSessions ==
    [][ resp'.op \in {"serverClosed", "stopRejected"} =>
            /\ Keys(transports') = {}
            /\ \A k \in Keys(transports) : tr'[transports[k]].closed
      ]_vars

\* C15: a response has status 400 only when it answers a GET or DELETE whose
\* session id is missing or is no key of the session table; no POST, with or
\* without a header, known or unknown, is answered 400.
C15_BadRequestOnlyForSessionRequests ==
    [][ resp'.status = 400 =>
            /\ resp'.op \in {"get", "delete"}
            /\ resp'.hdr \notin Keys(transports)
      ]_vars

\* C19: a tool call that ends in UnknownTool, InvalidParams or HandlerFailure
\* ends as an error result at the dispatcher: the process keeps running, the
\* session table and every transport's session state are as they were, and a
\* POST, GET or DELETE that carries a registered id is still forwarded to that
\* session's transport instead of being rejected by the endpoint.
C19_CallErrorsKeepSession ==
    [][ /\ (resp'.op = "result" /\ resp'.kind \in CallErrors) =>
               /\ process' = "running"
               /\ transports' = transports
               /\ pending' = pending
               /\ serverTransport' = serverTransport
               /\ \A t \in Transports :
                      /\ tr'[t].closed = tr[t].closed
                      /\ tr'[t].initialized = tr[t].initialized
                      /\ tr'[t].sessionId = tr[t].sessionId
                      /\ tr'[t].sse = tr[t].sse
        /\ (resp'.op \in {"post", "get", "delete"} /\ resp'.hdr \in Keys(transports))
            => /\ resp'.fwd = transports[resp'.hdr]
               /\ ~EndpointRejects
      ]_vars

\* C19 witness: a tool call of a registered session has just ended in an
\* error, the session is still registered and its transport is open.
C19_Witness ==
    /\ resp.op = "result" /\ resp.kind \in CallErrors
    /\ resp.hdr \in Keys(transports)
    /\ transports[resp.hdr] = resp.fwd
    /\ ~tr[resp.fwd].closed
    /\ process = "running"

----------------------------------------------------------------------------
\* Tool calls: properties.

\* The handler was invoked and has returned.
Returned == toolCall.phase = "done" /\ toolCall.invoked > 0

\* A text with at least one character.
NonEmptyText(text) == \E i \in DOMAIN text : text[i] # ""

\* The text ends with the serialization of the provider's data.
EndsWithData(text, o) ==
    /\ Len(text) >= 2
    /\ SubSeq(text, Len(text) - 1, Len(text)) = JSONstringify(o.data)

\* The arguments break the schema the tool declares: a required key is
\* missing, a key has a value of another type than declared, or minRating is
\* a number outside its declared range.
Violates(tool, a) ==
    IF tool = "search_nearby"
    THEN \/ a.center.t # "object"
         \/ a.value.t # "string"
         \/ a.isCoordinates.t \notin {"absent", "boolean"}
         \/ a.keyword.t \notin {"absent", "string"}
         \/ a.radius.t \notin {"absent", "number"}
         \/ a.openNow.t \notin {"absent", "boolean"}
         \/ a.minRating.t \notin {"absent", "number"}
         \/ a.minRating.t = "number" /\ (a.minRating.n < 0 \/ a.minRating.n > 5)
    ELSE IF tool = "get_place_details" THEN a.placeId.t # "string"
    ELSE a.locations.t # "object"

\* C16: a tool handler that was invoked returns a result whatever the provider
\* did and never throws; when constructing the provider threw, the provider
\* call threw, or the provider reported success: false, the result has
\* isError true and a non-empty list of text blocks with non-empty text.
C16_HandlersNeverThrow ==
    Returned =>
        /\ ~toolCall.result.thrown
        /\ Len(toolCall.result.content) >= 1
        /\ toolCall.provider.kind \in {"constructThrows", "throws", "failure"} =>
               /\ toolCall.result.isError = "true"
               /\ \A i \in DOMAIN toolCall.result.content :
                      /\ toolCall.result.content[i].type = "text"
                      /\ NonEmptyText(toolCall.result.content[i].text)

\* C16 witness: the first call of search_nearby found that constructing the
\* provider throws, and the handler returned an error result.
C16_Witness ==
    /\ Returned
    /\ toolCall.tool = "search_nearby"
    /\ toolCall.provider.kind = "constructThrows"
    /\ toolCall.result.isError = "true"

\* C17: the result of a handler is a success or a failure and its flag says
\* which: isError is set; it is false exactly when the provider reported
\* success: true, and then the text ends with the serialized data; it is true
\* exactly when the text is the error message (the provider's, when it gave
\* one) and carries no data.
C17_FlagAgreesWithContent ==
    Returned =>
        /\ toolCall.result.isError \in {"true", "false"}
        /\ toolCall.result.isError = "false" <=> toolCall.provider.kind = "success"
        /\ \A i \in DOMAIN toolCall.result.content :
               LET text == toolCall.result.content[i].text
               IN  IF toolCall.result.isError = "false"
                   THEN EndsWithData(text, toolCall.provider)
                   ELSE /\ ~EndsWithData(text, toolCall.provider)
                        /\ toolCall.provider.error # "" =>
                               \E j \in DOMAIN text : text[j] = toolCall.provider.error

\* C17 witness: both kinds of result occur: here the provider reported
\* success: false without a message and the handler returned its own text.
C17_Witness ==
    /\ Returned
    /\ toolCall.provider.kind = "failure"
    /\ toolCall.provider.error = ""
    /\ toolCall.result.isError = "true"

\* C18: a call whose arguments violate the tool's schema ends at the
\* dispatcher with an error result (isError true), and the tool's handler is
\* invoked zero times.
C18_InvalidArgumentsNotDispatched ==
    (/\ toolCall.phase # "received"
     /\ toolCall.tool \in ToolNames
     /\ Violates(toolCall.tool, toolCall.args))
        => /\ toolCall.phase = "done"
           /\ toolCall.invoked = 0
           /\ toolCall.provider = NotCalled
           /\ toolCall.outcome = "InvalidParams"
           /\ toolCall.result.isError = "true"

\* C18 witness: search_nearby was called with minRating above its range and
\* otherwise valid arguments, and the call has ended.
C18_Witness ==
    /\ toolCall.phase = "done"
    /\ toolCall.tool = "search_nearby"
    /\ toolCall.args.minRating = Num(MinRatingMax + 1)
    /\ ~Violates("search_nearby", [toolCall.args EXCEPT !.minRating = Absent])
    /\ toolCall.invoked = 0

\* C20: the search_nearby handler receives the arguments as the schema parsed
\* them: an omitted radius is 1000, an omitted openNow is false, an omitted
\* center.isCoordinates is false; supplied values are passed unchanged, and
\* keyword and minRating stay absent when omitted.
C20_DefaultsApplied ==
    (toolCall.tool = "search_nearby" /\ toolCall.invoked > 0) =>
        LET a == toolCall.args
            q == toolCall.params
        IN  /\ q.radius = IF a.radius = Absent THEN Num(1000) ELSE a.radius
            /\ q.openNow = IF a.openNow = Absent THEN Bool(FALSE) ELSE a.openNow
            /\ q.isCoordinates =
                   IF a.isCoordinates = Absent THEN Bool(FALSE) ELSE a.isCoordinates
            /\ q.keyword = a.keyword
            /\ q.minRating = a.minRating
            /\ q.center = a.center
            /\ q.value = a.value

\* C20 witness: the handler was invoked for a call that gave only the center's
\* value.
C20_Witness ==
    /\ toolCall.tool = "search_nearby" /\ toolCall.invoked > 0
    /\ toolCall.args.radius = Absent
    /\ toolCall.args.openNow = Absent
    /\ toolCall.args.isCoordinates = Absent
    /\ toolCall.args.keyword = Absent
    /\ toolCall.args.minRating = Absent
    /\ toolCall.params.radius = Num(DefaultRadius)

----------------------------------------------------------------------------
\* Order, atomicity, uninitialized transports, termination of the stop.

C24_LookupAndForwardAtomic ==
    [][ /\ (resp'.op \in {"post", "get", "delete"} /\ resp'.fwd # NoTransport) =>
               /\ resp'.hdr \in Keys(transports)
               /\ transports[resp'.hdr] = resp'.fwd
        /\ \A p \in pending' \ pending :
               /\ p.t = Len(tr')
               /\ Created
               /\ ~Registered(transports', p.t)
      ]_vars

\* C24 witness: a request was forwarded to the second of two registered
\* sessions.
C24_Witness ==
    /\ resp.op \in {"post", "get"} /\ resp.fwd = 2
    /\ resp.hdr \in Keys(transports) /\ transports[resp.hdr] = 2
    /\ Cardinality(Keys(transports)) = 2

\* C29: when a transport that has no sessionId closes, the session table is
\* left as it was.
C29_UninitializedCloseKeepsTable ==
    [][ \A t \in Transports :
            (~tr[t].closed /\ tr'[t].closed /\ tr[t].sessionId = NoSession)
                => transports' = transports
      ]_vars

\* C29 witness: a transport that was never initialized has closed while a
\* session is registered.
C29_Witness ==
    /\ resp.op = "closes"
    /\ \E t \in Transports : tr[t].closed /\ tr[t].sessionId = NoSession
    /\ Keys(transports) # {}

\* C30: stopHttpServer called with no server running returns and leaves the
\* session table (and everything else) as it was; called on a listening
\* server it finishes: as long as the process runs, a server that is closing
\* is eventually closed.
C30_StopFinishes ==
    /\ [][resp'.op = "stopNotRunning" =>
             /\ transports' = transports
             /\ tr' = tr
             /\ httpServer' = httpServer
             /\ process' = "running"]_vars
    /\ (httpServer = "closing" /\ Running) ~> (httpServer = "null" \/ ~Running)

(***************************************************************************)
(* The map providers (src/services/RiskScapeTools.ts): searchNearbyPlaces  *)
(* and calculateDistanceMatrix of RiskScapeTools and OpenStreetMapTools.   *)
(* `provider` holds one call of a provider method; the upstream service's  *)
(* answer is the environment's choice.                                     *)
(***************************************************************************)

MaxPlaces == 2

MaxLen == 4

\* filteredResults.slice(0, 20)
ResultLimit == 20

\* JavaScript's ToBoolean, as in `if (params.minRating)`
truthy(v) ==
    \/ v.t = "number" /\ v.n # 0
    \/ v.t = "boolean" /\ v.b
    \/ v.t = "string" /\ v.s # ""
    \/ v.t = "object"

SeqsUpTo(S, n) == UNION {[1..k -> S] : k \in 0..n}

\* String.prototype.includes for a one-character or one-word needle
includes(str, w) == \E i \in 1..Len(str) : str[i] = w

slice(list, from, to) ==
    SubSeq(list, from + 1, IF to < Len(list) THEN to ELSE Len(list))

\* A place of the RiskScape answer: rating and hours may be missing, and
\* hours.open_now may be missing inside hours.
RiskScapePlaces ==
    {[rating |-> r, hours |-> Absent, open_now |-> Absent] :
        r \in {Absent, Num(0), Num(2), Num(4)}}
    \cup
    {[rating |-> r, hours |-> Obj, open_now |-> o] :
        r \in {Absent, Num(0), Num(2), Num(4)},
        o \in {Absent, Bool(TRUE), Bool(FALSE)}}

\* tags.opening_hours of an Overpass element, as a list of words; the empty
\* list is the missing tag (and the empty string: both are falsy).
OpeningHours ==
    {<< >>, <<"24/7">>, <<"Mo-Fr", "09:00-17:00">>,
     <<"Mo-Sa", "09:00-17:00;", "Su", "closed">>}

\* An element of the Overpass answer: a node, a way with or without geometry.
OverpassElements ==
    {[type |-> ty.type, geometry |-> ty.geometry, opening_hours |-> h] :
        ty \in {[type |-> "node", geometry |-> FALSE],
                [type |-> "way", geometry |-> TRUE],
                [type |-> "way", geometry |-> FALSE]},
        h \in OpeningHours}

PlaceResult(rating, opening_hours, open_now) ==
    [rating |-> rating, opening_hours |-> opening_hours, open_now |-> open_now]

\* RiskScapeTools.searchNearbyPlaces after the fetch: the two filters and
\* the mapping to PlaceResult.
RiskScapeTools_searchNearbyPlaces(params, results) ==
    LET isOpen(place) == place.hours = Obj /\ place.open_now = Bool(TRUE)
        ratingOrZero(place) == IF truthy(place.rating) THEN place.rating.n ELSE 0
        rated(place) == ratingOrZero(place) >= params.minRating.n
        opened == IF truthy(params.openNow) THEN SelectSeq(results, isOpen)
                  ELSE results
        filtered == IF truthy(params.minRating) THEN SelectSeq(opened, rated)
                    ELSE opened
    IN  [i \in 1..Len(filtered) |->
            PlaceResult(filtered[i].rating,
                        IF filtered[i].hours = Obj THEN Obj ELSE Absent,
                        filtered[i].open_now)]

\* OpenStreetMapTools.isOpenNow
isOpenNow(openingHours) ==
    IF openingHours = << >> THEN Absent
    ELSE IF includes(openingHours, "24/7") THEN Bool(TRUE)
    ELSE IF includes(openingHours, "closed") THEN Bool(FALSE)
    ELSE Absent

\* OpenStreetMapTools.searchNearbyPlaces after the fetch: the loop over the
\* elements, the openNow filter and the slice.
OpenStreetMapTools_searchNearbyPlaces(params, elements) ==
    LET located(element) ==
            element.type = "node" \/ (element.type = "way" /\ element.geometry)
        kept == SelectSeq(elements, located)
        results == [i \in 1..Len(kept) |->
                       PlaceResult(Absent, Obj, isOpenNow(kept[i].opening_hours))]
        notClosed(place) ==
            ~(place.opening_hours = Obj /\ place.open_now = Bool(FALSE))
        filteredResults == IF truthy(params.openNow)
                           THEN SelectSeq(results, notClosed) ELSE results
    IN  slice(filteredResults, 0, ResultLimit)

\* Strings of the distance matrix are lists of characters.
Alphabet == {"1", "a", ",", ".", "-", " "}

Digits == {"0", "1", "2", "3", "4", "5", "6", "7", "8", "9"}

RECURSIVE split(_, _)
split(str, sep) ==
    IF ~includes(str, sep) THEN <<str>>
    ELSE LET i == CHOOSE i \in 1..Len(str) :
                      str[i] = sep /\ \A j \in 1..(i - 1) : str[j] # sep
         IN  <<SubSeq(str, 1, i - 1)>> \o split(SubSeq(str, i + 1, Len(str)), sep)

RECURSIVE trim(_)
trim(str) ==
    IF str # << >> /\ Head(str) = " " THEN trim(Tail(str))
    ELSE IF str # << >> /\ str[Len(str)] = " "
    THEN trim(SubSeq(str, 1, Len(str) - 1))
    ELSE str

\* the number of leading digits
RECURSIVE digits(_)
digits(str) ==
    IF str # << >> /\ Head(str) \in Digits THEN 1 + digits(Tail(str)) ELSE 0

unsigned(str) == IF str # << >> /\ Head(str) = "-" THEN Tail(str) ELSE str

\* parseFloat: the longest prefix that is a decimal literal, NaN without one
parseFloat(str) ==
    LET body == unsigned(str)
        int == digits(body)
        rest == SubSeq(body, int + 1, Len(body))
        dot == rest # << >> /\ Head(rest) = "."
        frac == IF dot THEN digits(Tail(rest)) ELSE 0
        len == IF int = 0 /\ frac = 0 THEN 0
               ELSE (Len(str) - Len(body)) + int + (IF dot THEN 1 + frac ELSE 0)
    IN  [nan |-> len = 0, text |-> SubSeq(str, 1, len)]

\* RiskScapeTools.parseCoordinates: "throws" or the two numbers
parseCoordinates(coordString) ==
    LET parts == split(coordString, ",")
        coords == [i \in 1..Len(parts) |-> parseFloat(trim(parts[i]))]
    IN  IF Len(coords) # 2 \/ coords[1].nan \/ coords[2].nan THEN "throws"
        ELSE "parsed"

\* -?\d+\.?\d* matches the whole of str
decimal(str) ==
    LET body == unsigned(str)
        int == digits(body)
        rest == SubSeq(body, int + 1, Len(body))
        frac == IF rest # << >> /\ Head(rest) = "." THEN Tail(rest) ELSE rest
    IN  int >= 1 /\ digits(frac) = Len(frac)

\* OpenStreetMapTools.isCoordinate: /^-?\d+\.?\d*,-?\d+\.?\d*$/.test(str)
isCoordinate(str) ==
    LET parts == split(str, ",")
    IN  Len(parts) = 2 /\ decimal(parts[1]) /\ decimal(parts[2])

\* What calculateDistanceMatrix does with one origin or destination:
\* "parsed" locally, "geocoded", or "throws" (parseCoordinates threw).
RiskScapeTools_resolve(origin) ==
    IF includes(origin, ",") /\ Len(split(origin, ",")) = 2
    THEN parseCoordinates(origin)
    ELSE "geocoded"

OpenStreetMapTools_resolve(origin) ==
    IF isCoordinate(origin) THEN "parsed" ELSE "geocoded"

resolve(who, origin) ==
    IF who = "riskscape" THEN RiskScapeTools_resolve(origin)
    ELSE OpenStreetMapTools_resolve(origin)

ProviderNames == {"riskscape", "osm"}

\* The parameters search_nearby passes on: openNow always set (the schema's
\* default), minRating optional.
SearchParams ==
    {[minRating |-> m, openNow |-> o] :
        m \in {Absent, Num(0), Num(3)}, o \in {Bool(TRUE), Bool(FALSE)}}

NoParams == [minRating |-> Absent, openNow |-> Bool(FALSE)]

Destinations == {<<"1", ",", "1">>, <<"a">>}

Operation(op, who, params, origins, destinations) ==
    [op |-> op, who |-> who, params |-> params, origins |-> origins,
     destinations |-> destinations, stage |-> "called", data |-> << >>,
     result |-> << >>, resolved |-> << >>]

Operations ==
    {Operation("searchNearbyPlaces", who, params, << >>, << >>) :
        who \in ProviderNames, params \in SearchParams}
    \cup
    {Operation("calculateDistanceMatrix", who, NoParams, <<o>>, <<d>>) :
        who \in ProviderNames, o \in SeqsUpTo(Alphabet, MaxLen), d \in Destinations}

ProviderInit ==
    /\ SessionInit
    /\ toolCall = NoToolCall
    /\ cli = NoStart
    /\ provider \in Operations

Upstream(who) ==
    IF who = "riskscape" THEN SeqsUpTo(RiskScapePlaces, MaxPlaces)
    ELSE SeqsUpTo(OverpassElements, MaxPlaces)

\* The upstream search answers with data and searchNearbyPlaces returns.
SearchReturns(data) ==
    /\ provider.op = "searchNearbyPlaces"
    /\ provider.stage = "called"
    /\ data \in Upstream(provider.who)
    /\ provider' =
           [provider EXCEPT
               !.stage = "returned",
               !.data = data,
               !.result =
                   IF provider.who = "riskscape"
                   THEN RiskScapeTools_searchNearbyPlaces(provider.params, data)
                   ELSE OpenStreetMapTools_searchNearbyPlaces(provider.params, data)]
    /\ UNCHANGED <<sessionVars, toolCall, cli>>

\* The upstream request fails: caught, logged, rethrown as a plain Error.
SearchThrows ==
    /\ provider.op = "searchNearbyPlaces"
    /\ provider.stage = "called"
    /\ provider' = [provider EXCEPT !.stage = "thrown"]
    /\ UNCHANGED <<sessionVars, toolCall, cli>>

\* The origins and destinations are turned into coordinates; geocodes tells
\* whether the geocoding service answers.
MatrixResolves(geocodes) ==
    /\ provider.op = "calculateDistanceMatrix"
    /\ provider.stage = "called"
    /\ LET all == provider.origins \o provider.destinations
           how == [i \in 1..Len(all) |-> resolve(provider.who, all[i])]
           failed == \E i \in 1..Len(how) :
                        \/ how[i] = "throws"
                        \/ how[i] = "geocoded" /\ ~geocodes
       IN  provider' = [provider EXCEPT
                           !.resolved = how,
                           !.stage = IF failed THEN "thrown" ELSE "requesting"]
    /\ UNCHANGED <<sessionVars, toolCall, cli>>

\* The matrix request is answered (ok) or fails.
MatrixAnswered(ok) ==
    /\ provider.op = "calculateDistanceMatrix"
    /\ provider.stage = "requesting"
    /\ provider' = [provider EXCEPT !.stage = IF ok THEN "returned" ELSE "thrown"]
    /\ UNCHANGED <<sessionVars, toolCall, cli>>

ProviderNext ==
    \/ \E data \in Upstream(provider.who) : SearchReturns(data)
    \/ SearchThrows
    \/ \E geocodes \in BOOLEAN : MatrixResolves(geocodes)
    \/ \E ok \in BOOLEAN : MatrixAnswered(ok)

ProviderSpec == ProviderInit /\ [][ProviderNext]_vars

\* C25: when minRating is given, every place searchNearbyPlaces returns has
\* a rating, and the rating is at least minRating, whichever provider ran.
C25_ResultsRatedAtLeastMinRating ==
    (/\ provider.op = "searchNearbyPlaces"
     /\ provider.stage = "returned"
     /\ provider.params.minRating # Absent)
    => \A i \in 1..Len(provider.result) :
          /\ provider.result[i].rating.t = "number"
          /\ provider.result[i].rating.n >= provider.params.minRating.n

\* C26: with openNow = true every place searchNearbyPlaces returns has
\* opening_hours.open_now = true, whichever provider ran.
C26_OnlyOpenPlaces ==
    (/\ provider.op = "searchNearbyPlaces"
     /\ provider.stage = "returned"
     /\ provider.params.openNow = Bool(TRUE))
    => \A i \in 1..Len(provider.result) :
          /\ provider.result[i].opening_hours = Obj
          /\ provider.result[i].open_now = Bool(TRUE)

\* C27: RiskScapeTools.calculateDistanceMatrix parses an origin or
\* destination locally exactly when it is a 'lat,lng' string and geocodes
\* it otherwise (an address with a comma included), the same strings being
\* coordinates for it as for OpenStreetMapTools.calculateDistanceMatrix.
C27_SameClassificationAsOsm ==
    (/\ provider.op = "calculateDistanceMatrix"
     /\ provider.who = "riskscape"
     /\ provider.stage # "called")
    => LET all == provider.origins \o provider.destinations
       IN  \A i \in 1..Len(all) :
              provider.resolved[i] = OpenStreetMapTools_resolve(all[i])

(***************************************************************************)
(* The command line (cli.ts): yargs reads the options, startServer writes  *)
(* them over the environment and starts one BaseMcpServer per server       *)
(* config.  Strings are lists of characters; a JavaScript number is NaN or *)
(* an integer.                                                             *)
(***************************************************************************)

\* an environment variable or option that is not set / not given: undefined
Unset == [set |-> FALSE, s |-> << >>]

Val(s) == [set |-> TRUE, s |-> s]

NaN == [nan |-> TRUE, n |-> 0]

Finite(n) == [nan |-> FALSE, n |-> n]

\* ToBoolean of a string or undefined, of a number
truthyString(v) == v.set /\ v.s # << >>

truthyNumber(x) == ~x.nan /\ x.n # 0

digitValue ==
    "0" :> 0 @@ "1" :> 1 @@ "2" :> 2 @@ "3" :> 3 @@ "4" :> 4 @@
    "5" :> 5 @@ "6" :> 6 @@ "7" :> 7 @@ "8" :> 8 @@ "9" :> 9

digitChar == <<"0", "1", "2", "3", "4", "5", "6", "7", "8", "9">>

RECURSIVE natural(_)
natural(str) ==
    IF str = << >> THEN 0
    ELSE natural(SubSeq(str, 1, Len(str) - 1)) * 10 + digitValue[str[Len(str)]]

RECURSIVE decimalString(_)
decimalString(n) ==
    IF n < 10 THEN <<digitChar[n + 1]>>
    ELSE decimalString(n \div 10) \o <<digitChar[(n % 10) + 1]>>

signed(str, n) == IF str # << >> /\ Head(str) = "-" THEN 0 - n ELSE n

\* Number(portString): the whole trimmed string must be a number; "" is 0
Number(str) ==
    LET s == trim(str)
        body == unsigned(s)
    IN  IF s = << >> THEN Finite(0)
        ELSE IF body # << >> /\ digits(body) = Len(body)
        THEN Finite(signed(s, natural(body)))
        ELSE NaN

\* parseInt(process.env.MCP_SERVER_PORT): the longest integer prefix
parseInt(str) ==
    LET s == trim(str)
        body == unsigned(s)
        k == digits(body)
    IN  IF k = 0 THEN NaN ELSE Finite(signed(s, natural(SubSeq(body, 1, k))))

\* port.toString()
toString(x) ==
    IF x.nan THEN <<"N", "a", "N">>
    ELSE IF x.n < 0 THEN <<"-">> \o decimalString(0 - x.n)
    ELSE decimalString(x.n)

\* default: process.env.MCP_SERVER_PORT ? parseInt(...) : 3000
YargsDefaultPort == 3000

\* README, Command Line Options: --port, default 3200
DocumentedDefaultPort == 3200

\* import serverConfigs from "./config.js": one server, whose port is read
\* from MCP_SERVER_PORT
serverConfigs == <<[name |-> "MCP-Server", portEnvVar |-> "MCP_SERVER_PORT"]>>

EnvVars ==
    {"MCP_SERVER_PORT", "GOOGLE_MAPS_API_KEY", "MAP_API_PROVIDER",
     "RISKSCAPE_API_KEY"}

PortEnvValues ==
    {Unset, Val(<< >>), Val(<<"a", "b", "c">>), Val(<<"0">>), Val(<<"-", "5">>),
     Val(<<"3", "2", "0", "0">>), Val(<<"8", "0", "a">>)}

PortOptions ==
    {Unset, Val(<<"0">>), Val(<<"a", "b", "c">>), Val(<<"8", "0", "8", "0">>),
     Val(<<"-", "5">>)}

KeyEnvValues == {Unset, Val(<<"e", "n", "v">>)}

KeyOptions == {Unset, Val(<< >>), Val(<<"c", "l", "i">>)}

ProviderEnvValues == {Unset, Val(<<"o", "s", "m">>)}

\* choices: ['google', 'osm', 'openstreetmap', 'riskscape']
ProviderOptions == {Unset, Val(<<"r", "i", "s", "k", "s", "c", "a", "p", "e">>)}

Environments ==
    {[v \in EnvVars |->
        CASE v = "MCP_SERVER_PORT" -> p
          [] v = "GOOGLE_MAPS_API_KEY" -> k
          [] v = "MAP_API_PROVIDER" -> m
          [] v = "RISKSCAPE_API_KEY" -> r] :
        p \in PortEnvValues, k \in KeyEnvValues, m \in ProviderEnvValues,
        r \in KeyEnvValues}

CommandLines ==
    [port : PortOptions, apikey : KeyOptions, provider : ProviderOptions,
     riskscapeKey : KeyOptions]

NoArgv == [port |-> NaN, apikey |-> Unset, provider |-> Unset, riskscapeKey |-> Unset]

NotStarted == [status |-> "-", constructed |-> 0, serverPort |-> 0]

Launched(env, given) ==
    [stage |-> "launched", given |-> given, before |-> env, env |-> env,
     argv |-> NoArgv, servers |-> [i \in 1..Len(serverConfigs) |-> NotStarted]]

CliInit ==
    /\ SessionInit
    /\ toolCall = NoToolCall
    /\ provider = NoOperation
    /\ cli \in {Launched(env, given) : env \in Environments, given \in CommandLines}

\* yargs(...).option(...).parseSync(): an option that is not given takes
\* its default.
yargs(env, given) ==
    [port |-> IF given.port.set THEN Number(given.port.s)
              ELSE IF truthyString(env["MCP_SERVER_PORT"])
              THEN parseInt(env["MCP_SERVER_PORT"].s)
              ELSE Finite(YargsDefaultPort),
     apikey |-> IF given.apikey.set THEN given.apikey
                ELSE env["GOOGLE_MAPS_API_KEY"],
     provider |-> IF given.provider.set THEN given.provider
                  ELSE IF truthyString(env["MAP_API_PROVIDER"])
                  THEN env["MAP_API_PROVIDER"]
                  ELSE Val(<<"g", "o", "o", "g", "l", "e">>),
     riskscapeKey |-> IF given.riskscapeKey.set THEN given.riskscapeKey
                      ELSE env["RISKSCAPE_API_KEY"]]

ParseArguments ==
    /\ cli.stage = "launched"
    /\ cli' = [cli EXCEPT !.stage = "parsed", !.argv = yargs(cli.env, cli.given)]
    /\ UNCHANGED <<sessionVars, toolCall, provider>>

\* startServer, lines 201-212: the arguments written over the environment
override(env, port, apiKey, mapProvider, riskscapeKey) ==
    [v \in EnvVars |->
        CASE v = "MCP_SERVER_PORT" ->
                 IF truthyNumber(port) THEN Val(toString(port)) ELSE env[v]
          [] v = "GOOGLE_MAPS_API_KEY" ->
                 IF truthyString(apiKey) THEN apiKey ELSE env[v]
          [] v = "MAP_API_PROVIDER" ->
                 IF truthyString(mapProvider) THEN mapProvider ELSE env[v]
          [] v = "RISKSCAPE_API_KEY" ->
                 IF truthyString(riskscapeKey) THEN riskscapeKey ELSE env[v]]

validPort_zero_allowed(serverPort) == ~serverPort.nan /\ serverPort.n >= 0

\* the negation of `isNaN(serverPort) || serverPort <= 0`
validPort(serverPort) == ~(serverPort.nan \/ serverPort.n <= 0)

\* The callback of serverConfigs.map up to its first await: the early
\* returns, or new BaseMcpServer and the call of startHttpServer.
begin(env, config) ==
    LET portString == env[config.portEnvVar]
        serverPort == Number(portString.s)
    IN  IF ~truthyString(portString) THEN [NotStarted EXCEPT !.status = "skipped"]
        ELSE IF ~validPort(serverPort) THEN [NotStarted EXCEPT !.status = "skipped"]
        ELSE [status |-> "starting", constructed |-> 1, serverPort |-> serverPort.n]

\* startServer(argv.port, argv.apikey, argv.provider, argv['riskscape-key'])
\* up to `await Promise.allSettled(startPromises)`.
StartServer ==
    /\ cli.stage = "parsed"
    /\ LET env == override(cli.env, cli.argv.port, cli.argv.apikey,
                           cli.argv.provider, cli.argv.riskscapeKey)
       IN  cli' = [cli EXCEPT
                      !.stage = "settling",
                      !.env = env,
                      !.servers = [i \in 1..Len(serverConfigs) |->
                                      begin(env, serverConfigs[i])]]
    /\ UNCHANGED <<sessionVars, toolCall, provider>>

\* await server.startHttpServer(serverPort) resumes: the server listens, or
\* the call threw and the catch logs the failure.
HttpServerStarted(i, threw) ==
    /\ cli.stage = "settling"
    /\ cli.servers[i].status = "starting"
    /\ cli' = [cli EXCEPT !.servers[i].status =
                              IF threw THEN "failed" ELSE "listening"]
    /\ UNCHANGED <<sessionVars, toolCall, provider>>

\* Promise.allSettled(startPromises) resolves and startServer returns.
Completed ==
    /\ cli.stage = "settling"
    /\ \A i \in 1..Len(serverConfigs) : cli.servers[i].status # "starting"
    /\ cli' = [cli EXCEPT !.stage = "completed"]
    /\ UNCHANGED <<sessionVars, toolCall, provider>>

CliNext ==
    \/ ParseArguments
    \/ StartServer
    \/ \E i \in 1..Len(serverConfigs), threw \in BOOLEAN : HttpServerStarted(i, threw)
    \/ Completed

CliSpec == CliInit /\ [][CliNext]_vars

\* C22: without --port and without MCP_SERVER_PORT the server listens on
\* port 3200.
C22_DefaultPort ==
    (/\ ~cli.given.port.set
     /\ ~cli.before["MCP_SERVER_PORT"].set)
    => \A i \in 1..Len(serverConfigs) :
          cli.servers[i].status \in {"starting", "listening", "failed"}
              => cli.servers[i].serverPort = DocumentedDefaultPort

\* C23: once startServer has written its arguments, each of port, Google
\* API key, provider and RiskScape key that it was given a value for, while
\* the environment held another value, is the value the server runs with.
taken(before, given, after) ==
    (before.set /\ before # given) => after = given

C23_ArgumentsTakePrecedence ==
    cli.stage \in {"settling", "completed"}
    => /\ ~cli.argv.port.nan
             => taken(cli.before["MCP_SERVER_PORT"], Val(toString(cli.argv.port)),
                      cli.env["MCP_SERVER_PORT"])
       /\ cli.argv.apikey.set
             => taken(cli.before["GOOGLE_MAPS_API_KEY"], cli.argv.apikey,
                      cli.env["GOOGLE_MAPS_API_KEY"])
       /\ cli.argv.provider.set
             => taken(cli.before["MAP_API_PROVIDER"], cli.argv.provider,
                      cli.env["MAP_API_PROVIDER"])
       /\ cli.argv.riskscapeKey.set
             => taken(cli.before["RISKSCAPE_API_KEY"], cli.argv.riskscapeKey,
                      cli.env["RISKSCAPE_API_KEY"])

\* C28: a config whose port variable is unset, not a number or <= 0 gets no
\* BaseMcpServer and no HTTP server; startServer is never stopped short of
\* its completion, by a bad port or by a startHttpServer that threw.
C28_BadPortSkipped ==
    /\ \A i \in 1..Len(serverConfigs) :
          LET portString == cli.env[serverConfigs[i].portEnvVar]
              bad == \/ ~portString.set
                     \/ Number(portString.s).nan
                     \/ Number(portString.s).n <= 0
          IN  (cli.stage \in {"settling", "completed"} /\ bad)
              => /\ cli.servers[i].constructed = 0
                 /\ cli.servers[i].status = "skipped"
    /\ cli.stage # "completed" => ENABLED CliNext

C28_Witness ==
    /\ cli.stage = "completed"
    /\ cli.env["MCP_SERVER_PORT"] = Val(<<"0">>)
    /\ cli.servers[1].status = "skipped"

====
